---------------------------- MODULE Spec2Model ----------------------------
(***************************************************************************)
(* Model of the two utility scripts of the repository:                     *)
(*   Scripts/fix_malformed_swift.py  (Script A, the text-repair tool)      *)
(*   test_backend.py                 (Script B, the connectivity probe)    *)
(*                                                                         *)
(* A text is a sequence of one-character strings.  A regular expression of *)
(* the replacement list is a sequence of tokens: "\\b" (word boundary),    *)
(* "\\s+" (a run of whitespace) or a literal character.                    *)
(***************************************************************************)
EXTENDS Integers, Sequences, FiniteSets, TLC

(***************************************************************************)
(* Bounds of the model.                                                    *)
(***************************************************************************)
\* an input text of SpecFix is the concatenation of at most MaxFrags fragments
MaxFrags == 2
\* number of Swift files below Sources/ in a run of Script A
NumFiles == 2
\* process_file is run at most MaxRuns times on the text of SpecFix
MaxRuns == 2

(***************************************************************************)
(* Characters: Python's re classes \s and \w restricted to ASCII.          *)
(***************************************************************************)
SpaceChars == {" ", "\t", "\n", "\r", "\f"}

WordChars ==
    {"a","b","c","d","e","f","g","h","i","j","k","l","m",
     "n","o","p","q","r","s","t","u","v","w","x","y","z",
     "A","B","C","D","E","F","G","H","I","J","K","L","M",
     "N","O","P","Q","R","S","T","U","V","W","X","Y","Z",
     "0","1","2","3","4","5","6","7","8","9","_"}

IsSpace(c) == c \in SpaceChars

IsWord(c) == c \in WordChars

\* \b at position i (between text[i-1] and text[i]): exactly one side is a word character
IsBoundary(text, i) ==
    LET before == i > 1 /\ i - 1 <= Len(text) /\ IsWord(text[i - 1])
        after  == i >= 1 /\ i <= Len(text) /\ IsWord(text[i])
    IN  before # after

\* first position at or after i that holds no whitespace (greedy \s+)
RECURSIVE SkipSpace(_, _)
SkipSpace(text, i) ==
    IF i <= Len(text) /\ IsSpace(text[i]) THEN SkipSpace(text, i + 1) ELSE i

(***************************************************************************)
(* The ordered replacement list of fix_malformed_code.                     *)
(***************************************************************************)
replacements == <<
    \* line 21: (r'\bfunc\s+cpublic\s+reate', 'public func create')
    [pattern |-> <<"\\b","f","u","n","c","\\s+","c","p","u","b","l","i","c","\\s+","r","e","a","t","e">>,
     replacement |-> <<"p","u","b","l","i","c"," ","f","u","n","c"," ","c","r","e","a","t","e">>],
    \* line 22: (r'\bfunc\s+epublic\s+dit', 'public func edit')
    [pattern |-> <<"\\b","f","u","n","c","\\s+","e","p","u","b","l","i","c","\\s+","d","i","t">>,
     replacement |-> <<"p","u","b","l","i","c"," ","f","u","n","c"," ","e","d","i","t">>],
    \* line 23: (r'\bfunc\s+spublic\s+ave', 'public func save')
    [pattern |-> <<"\\b","f","u","n","c","\\s+","s","p","u","b","l","i","c","\\s+","a","v","e">>,
     replacement |-> <<"p","u","b","l","i","c"," ","f","u","n","c"," ","s","a","v","e">>],
    \* line 24: (r'\bfunc\s+dpublic\s+elete', 'public func delete')
    [pattern |-> <<"\\b","f","u","n","c","\\s+","d","p","u","b","l","i","c","\\s+","e","l","e","t","e">>,
     replacement |-> <<"p","u","b","l","i","c"," ","f","u","n","c"," ","d","e","l","e","t","e">>],
    \* line 25: (r'\bfunc\s+spublic\s+et', 'public func set')
    [pattern |-> <<"\\b","f","u","n","c","\\s+","s","p","u","b","l","i","c","\\s+","e","t">>,
     replacement |-> <<"p","u","b","l","i","c"," ","f","u","n","c"," ","s","e","t">>],
    \* line 26: (r'\bfunc\s+dpublic\s+uplicate', 'public func duplicate')
    [pattern |-> <<"\\b","f","u","n","c","\\s+","d","p","u","b","l","i","c","\\s+","u","p","l","i","c","a","t","e">>,
     replacement |-> <<"p","u","b","l","i","c"," ","f","u","n","c"," ","d","u","p","l","i","c","a","t","e">>],
    \* line 27: (r'\bfunc\s+opublic\s+pen', 'public func open')
    [pattern |-> <<"\\b","f","u","n","c","\\s+","o","p","u","b","l","i","c","\\s+","p","e","n">>,
     replacement |-> <<"p","u","b","l","i","c"," ","f","u","n","c"," ","o","p","e","n">>],
    \* line 28: (r'\bfunc\s+tpublic\s+est', 'public func test')
    [pattern |-> <<"\\b","f","u","n","c","\\s+","t","p","u","b","l","i","c","\\s+","e","s","t">>,
     replacement |-> <<"p","u","b","l","i","c"," ","f","u","n","c"," ","t","e","s","t">>],
    \* line 29: (r'\bfunc\s+cpublic\s+onnect', 'public func connect')
    [pattern |-> <<"\\b","f","u","n","c","\\s+","c","p","u","b","l","i","c","\\s+","o","n","n","e","c","t">>,
     replacement |-> <<"p","u","b","l","i","c"," ","f","u","n","c"," ","c","o","n","n","e","c","t">>],
    \* line 30: (r'\bfunc\s+dpublic\s+isconnect', 'public func disconnect')
    [pattern |-> <<"\\b","f","u","n","c","\\s+","d","p","u","b","l","i","c","\\s+","i","s","c","o","n","n","e","c","t">>,
     replacement |-> <<"p","u","b","l","i","c"," ","f","u","n","c"," ","d","i","s","c","o","n","n","e","c","t">>],
    \* line 31: (r'\bfunc\s+apublic\s+dd', 'public func add')
    [pattern |-> <<"\\b","f","u","n","c","\\s+","a","p","u","b","l","i","c","\\s+","d","d">>,
     replacement |-> <<"p","u","b","l","i","c"," ","f","u","n","c"," ","a","d","d">>],
    \* line 32: (r'\bfunc\s+rpublic\s+emove', 'public func remove')
    [pattern |-> <<"\\b","f","u","n","c","\\s+","r","p","u","b","l","i","c","\\s+","e","m","o","v","e">>,
     replacement |-> <<"p","u","b","l","i","c"," ","f","u","n","c"," ","r","e","m","o","v","e">>],
    \* line 33: (r'\bfunc\s+spublic\s+earch', 'public func search')
    [pattern |-> <<"\\b","f","u","n","c","\\s+","s","p","u","b","l","i","c","\\s+","e","a","r","c","h">>,
     replacement |-> <<"p","u","b","l","i","c"," ","f","u","n","c"," ","s","e","a","r","c","h">>],
    \* line 34: (r'\bfunc\s+cpublic\s+lear', 'public func clear')
    [pattern |-> <<"\\b","f","u","n","c","\\s+","c","p","u","b","l","i","c","\\s+","l","e","a","r">>,
     replacement |-> <<"p","u","b","l","i","c"," ","f","u","n","c"," ","c","l","e","a","r">>],
    \* line 37: (r'\bvar\s+cpublic\s+ategorized', 'public var categorized')
    [pattern |-> <<"\\b","v","a","r","\\s+","c","p","u","b","l","i","c","\\s+","a","t","e","g","o","r","i","z","e","d">>,
     replacement |-> <<"p","u","b","l","i","c"," ","v","a","r"," ","c","a","t","e","g","o","r","i","z","e","d">>],
    \* line 38: (r'\bvar\s+fpublic\s+iltered', 'public var filtered')
    [pattern |-> <<"\\b","v","a","r","\\s+","f","p","u","b","l","i","c","\\s+","i","l","t","e","r","e","d">>,
     replacement |-> <<"p","u","b","l","i","c"," ","v","a","r"," ","f","i","l","t","e","r","e","d">>],
    \* line 39: (r'\bvar\s+hpublic\s+as', 'public var has')
    [pattern |-> <<"\\b","v","a","r","\\s+","h","p","u","b","l","i","c","\\s+","a","s">>,
     replacement |-> <<"p","u","b","l","i","c"," ","v","a","r"," ","h","a","s">>],
    \* line 40: (r'\bvar\s+cpublic\s+an', 'public var can')
    [pattern |-> <<"\\b","v","a","r","\\s+","c","p","u","b","l","i","c","\\s+","a","n">>,
     replacement |-> <<"p","u","b","l","i","c"," ","v","a","r"," ","c","a","n">>],
    \* line 43: (r'\blet\s+ppublic\s+roject\b', 'let project')
    [pattern |-> <<"\\b","l","e","t","\\s+","p","p","u","b","l","i","c","\\s+","r","o","j","e","c","t","\\b">>,
     replacement |-> <<"l","e","t"," ","p","r","o","j","e","c","t">>],
    \* line 44: (r'\blet\s+cpublic\s+onfig\b', 'let config')
    [pattern |-> <<"\\b","l","e","t","\\s+","c","p","u","b","l","i","c","\\s+","o","n","f","i","g","\\b">>,
     replacement |-> <<"l","e","t"," ","c","o","n","f","i","g">>],
    \* line 45: (r'\blet\s+spublic\s+uccess\b', 'let success')
    [pattern |-> <<"\\b","l","e","t","\\s+","s","p","u","b","l","i","c","\\s+","u","c","c","e","s","s","\\b">>,
     replacement |-> <<"l","e","t"," ","s","u","c","c","e","s","s">>],
    \* line 46: (r'\blet\s+dpublic\s+uplicated\b', 'let duplicated')
    [pattern |-> <<"\\b","l","e","t","\\s+","d","p","u","b","l","i","c","\\s+","u","p","l","i","c","a","t","e","d","\\b">>,
     replacement |-> <<"l","e","t"," ","d","u","p","l","i","c","a","t","e","d">>],
    \* line 47: (r'\blet\s+ipublic\s+mpact', 'let impact')
    [pattern |-> <<"\\b","l","e","t","\\s+","i","p","u","b","l","i","c","\\s+","m","p","a","c","t">>,
     replacement |-> <<"l","e","t"," ","i","m","p","a","c","t">>],
    \* line 50: (r'cpublic\s+reate', 'create')
    [pattern |-> <<"c","p","u","b","l","i","c","\\s+","r","e","a","t","e">>,
     replacement |-> <<"c","r","e","a","t","e">>],
    \* line 51: (r'epublic\s+dit', 'edit')
    [pattern |-> <<"e","p","u","b","l","i","c","\\s+","d","i","t">>,
     replacement |-> <<"e","d","i","t">>],
    \* line 52: (r'spublic\s+ave', 'save')
    [pattern |-> <<"s","p","u","b","l","i","c","\\s+","a","v","e">>,
     replacement |-> <<"s","a","v","e">>],
    \* line 53: (r'dpublic\s+elete', 'delete')
    [pattern |-> <<"d","p","u","b","l","i","c","\\s+","e","l","e","t","e">>,
     replacement |-> <<"d","e","l","e","t","e">>],
    \* line 54: (r'spublic\s+et', 'set')
    [pattern |-> <<"s","p","u","b","l","i","c","\\s+","e","t">>,
     replacement |-> <<"s","e","t">>],
    \* line 55: (r'dpublic\s+uplicate', 'duplicate')
    [pattern |-> <<"d","p","u","b","l","i","c","\\s+","u","p","l","i","c","a","t","e">>,
     replacement |-> <<"d","u","p","l","i","c","a","t","e">>],
    \* line 56: (r'opublic\s+pen', 'open')
    [pattern |-> <<"o","p","u","b","l","i","c","\\s+","p","e","n">>,
     replacement |-> <<"o","p","e","n">>],
    \* line 57: (r'tpublic\s+est', 'test')
    [pattern |-> <<"t","p","u","b","l","i","c","\\s+","e","s","t">>,
     replacement |-> <<"t","e","s","t">>],
    \* line 58: (r'cpublic\s+onnect', 'connect')
    [pattern |-> <<"c","p","u","b","l","i","c","\\s+","o","n","n","e","c","t">>,
     replacement |-> <<"c","o","n","n","e","c","t">>],
    \* line 59: (r'dpublic\s+isconnect', 'disconnect')
    [pattern |-> <<"d","p","u","b","l","i","c","\\s+","i","s","c","o","n","n","e","c","t">>,
     replacement |-> <<"d","i","s","c","o","n","n","e","c","t">>],
    \* line 60: (r'apublic\s+dd', 'add')
    [pattern |-> <<"a","p","u","b","l","i","c","\\s+","d","d">>,
     replacement |-> <<"a","d","d">>],
    \* line 61: (r'rpublic\s+emove', 'remove')
    [pattern |-> <<"r","p","u","b","l","i","c","\\s+","e","m","o","v","e">>,
     replacement |-> <<"r","e","m","o","v","e">>],
    \* line 62: (r'spublic\s+earch', 'search')
    [pattern |-> <<"s","p","u","b","l","i","c","\\s+","e","a","r","c","h">>,
     replacement |-> <<"s","e","a","r","c","h">>],
    \* line 63: (r'cpublic\s+lear', 'clear')
    [pattern |-> <<"c","p","u","b","l","i","c","\\s+","l","e","a","r">>,
     replacement |-> <<"c","l","e","a","r">>],
    \* line 64: (r'cpublic\s+ategorized', 'categorized')
    [pattern |-> <<"c","p","u","b","l","i","c","\\s+","a","t","e","g","o","r","i","z","e","d">>,
     replacement |-> <<"c","a","t","e","g","o","r","i","z","e","d">>],
    \* line 65: (r'fpublic\s+iltered', 'filtered')
    [pattern |-> <<"f","p","u","b","l","i","c","\\s+","i","l","t","e","r","e","d">>,
     replacement |-> <<"f","i","l","t","e","r","e","d">>],
    \* line 66: (r'hpublic\s+as', 'has')
    [pattern |-> <<"h","p","u","b","l","i","c","\\s+","a","s">>,
     replacement |-> <<"h","a","s">>],
    \* line 67: (r'cpublic\s+an', 'can')
    [pattern |-> <<"c","p","u","b","l","i","c","\\s+","a","n">>,
     replacement |-> <<"c","a","n">>],
    \* line 68: (r'ppublic\s+roject', 'project')
    [pattern |-> <<"p","p","u","b","l","i","c","\\s+","r","o","j","e","c","t">>,
     replacement |-> <<"p","r","o","j","e","c","t">>],
    \* line 69: (r'cpublic\s+onfig', 'config')
    [pattern |-> <<"c","p","u","b","l","i","c","\\s+","o","n","f","i","g">>,
     replacement |-> <<"c","o","n","f","i","g">>],
    \* line 70: (r'spublic\s+uccess', 'success')
    [pattern |-> <<"s","p","u","b","l","i","c","\\s+","u","c","c","e","s","s">>,
     replacement |-> <<"s","u","c","c","e","s","s">>],
    \* line 71: (r'dpublic\s+uplicated', 'duplicated')
    [pattern |-> <<"d","p","u","b","l","i","c","\\s+","u","p","l","i","c","a","t","e","d">>,
     replacement |-> <<"d","u","p","l","i","c","a","t","e","d">>],
    \* line 72: (r'ipublic\s+mpact', 'impact')
    [pattern |-> <<"i","p","u","b","l","i","c","\\s+","m","p","a","c","t">>,
     replacement |-> <<"i","m","p","a","c","t">>]
>>

(***************************************************************************)
(* re.sub(pattern, replacement, text).                                     *)
(***************************************************************************)
\* MatchFrom: the position after a match of pattern[k..] starting at text[i], 0 if none.
\* Every \s+ of the list is followed by a letter, so giving back whitespace
\* never helps and the greedy run is the only candidate.
RECURSIVE MatchFrom(_, _, _, _)
MatchFrom(pattern, k, text, i) ==
    IF k > Len(pattern) THEN i
    ELSE IF pattern[k] = "\\b" THEN
        IF IsBoundary(text, i) THEN MatchFrom(pattern, k + 1, text, i) ELSE 0
    ELSE IF pattern[k] = "\\s+" THEN
        IF i <= Len(text) /\ IsSpace(text[i])
        THEN MatchFrom(pattern, k + 1, text, SkipSpace(text, i))
        ELSE 0
    ELSE
        IF i <= Len(text) /\ text[i] = pattern[k]
        THEN MatchFrom(pattern, k + 1, text, i + 1)
        ELSE 0

MatchEnd(pattern, text, i) == MatchFrom(pattern, 1, text, i)

\* leftmost non-overlapping matches, scanned from position i of the unmodified text
RECURSIVE SubFrom(_, _, _, _)
SubFrom(pattern, replacement, text, i) ==
    IF i > Len(text) THEN << >>
    ELSE LET e == MatchEnd(pattern, text, i)
         IN  IF e > 0
             THEN replacement \o SubFrom(pattern, replacement, text, e)
             ELSE << text[i] >> \o SubFrom(pattern, replacement, text, i + 1)

\* pattern matches somewhere in text
Matches(pattern, text) == \E i \in 1..Len(text) : MatchEnd(pattern, text, i) > 0

\* first position at or after i where pattern matches, 0 if none
RECURSIVE FirstMatch(_, _, _)
FirstMatch(pattern, text, i) ==
    IF i > Len(text) THEN 0
    ELSE IF MatchEnd(pattern, text, i) > 0 THEN i
    ELSE FirstMatch(pattern, text, i + 1)

\* re.sub(pattern, replacement, text, count=1): only the first match is replaced
re_sub_first(pattern, replacement, text) ==
    LET i == FirstMatch(pattern, text, 1)
    IN  IF i = 0 THEN text
        ELSE SubSeq(text, 1, i - 1) \o replacement
             \o SubSeq(text, MatchEnd(pattern, text, i), Len(text))

\* re.sub returns the text itself when nothing matches
re_sub(pattern, replacement, text) ==
    IF Matches(pattern, text) THEN SubFrom(pattern, replacement, text, 1) ELSE text

\* the loop of fix_malformed_code from list index k on
RECURSIVE ApplyFrom(_, _)
ApplyFrom(k, modified) ==
    IF k > Len(replacements) THEN modified
    ELSE LET next == re_sub(replacements[k].pattern, replacements[k].replacement, modified)
         IN  \* the test evaluates next before the loop goes on
             IF Len(next) >= 0 THEN ApplyFrom(k + 1, next) ELSE next

fix_malformed_code(content) == ApplyFrom(1, content)

\* some pattern of the list matches somewhere in text
PatternOccurs(text) ==
    \E k \in 1..Len(replacements) : Matches(replacements[k].pattern, text)

\* a comparison that always takes the rewriting branch
ChangedAlways(before, after) == TRUE

\* process_file's test "modified != original"
Changed(before, after) == after # before

(***************************************************************************)
(* The re-scan of main: the marker substrings and "pattern in content".    *)
(***************************************************************************)
MarkerLetters == <<"c", "f", "h", "p", "d", "e", "s", "o", "t", "a", "r", "i">>

Marker(k) == << MarkerLetters[k] >> \o <<"p","u","b","l","i","c"," ">>

\* Python's "sub in text" at position i
OccursAt(sub, text, i) ==
    /\ i + Len(sub) - 1 <= Len(text)
    /\ \A j \in 1..Len(sub) : text[i + j - 1] = sub[j]

Contains(text, sub) == \E i \in 1..Len(text) : OccursAt(sub, text, i)

HasMarker(content) == \E k \in 1..Len(MarkerLetters) : Contains(content, Marker(k))

(***************************************************************************)
(* Input texts: concatenations of fragments of corrupted and sound Swift.  *)
(***************************************************************************)
Fragments == {
    <<"f","u","n","c"," ">>,
    <<"l","e","t"," ">>,
    <<"v","a","r"," ">>,
    <<"c","p","u","b","l","i","c"," ","r","e","a","t","e">>,
    <<"c","p","u","b","l","i","c"," ","r","e","a">>,
    <<"t","p","u","b","l","i","c"," ","e","s","t">>,
    <<"p","p","u","b","l","i","c"," ","r","o","j","e","c","t">>,
    <<"f","p","u","b","l","i","c"," ","i","l","t","e","r","e","d">>,
    <<"e","p","u","b","l","i","c","\t","d","i","t">>,
    <<"p","u","b","l","i","c"," ","d","i","t">>,
    <<"p","u","b","l","i","c"," ","e","s","t">>,
    <<"c","p","u","b","l","i","c"," ">>,
    <<"P","r","o","j","e","c","t">>,
    <<"T","o","o","l","s">>
}

\* the texts a Swift file of the Script A run may hold
FileTexts == {
    <<"f","u","n","c"," ","c","p","u","b","l","i","c"," ","r","e","a","t","e">>,
    <<"c","p","u","b","l","i","c"," ","P","r","o","j","e","c","t">>,
    <<"l","e","t"," ","P","r","o","j","e","c","t">>
}

RECURSIVE TextsUpTo(_)
TextsUpTo(n) ==
    IF n = 0 THEN { << >> }
    ELSE LET T == TextsUpTo(n - 1)
         IN  T \cup { t \o f : t \in T, f \in Fragments }

Inputs == TextsUpTo(MaxFrags)

\* the Swift files found by the glob, in the order main visits them
Files == 1..NumFiles

\* a path that names no file, and a file holding data
NoFile == [exists |-> FALSE, data |-> << >>]

FileWith(data) == [exists |-> TRUE, data |-> data]

\* what a write that raises part-way may leave behind
Prefix(data) == SubSeq(data, 1, Len(data) \div 2)

\* the status codes and exceptions a request of Script B may end in
Statuses == {200, 201, 204, 301, 400, 404, 500, 503}

\* ConnectTimeout is a subclass of ConnectionError, ReadTimeout is not
RequestErrors == {"ConnectionError", "ConnectTimeout", "ReadTimeout"}

NoResponse == [status |-> 0, json |-> FALSE]

NoException == [kind |-> "none", at |-> "none"]

VARIABLES
    text0,        \* SpecFix: the text of the file before the first run
    text,         \* SpecFix: the text of the file now
    prev,         \* SpecFix: the text of the file before the last run
    ret,          \* SpecFix: what the last process_file returned ("none" before any)
    runs,         \* SpecFix: runs of process_file so far
    writes,       \* SpecFix: how many times the file was written
    dirExists,    \* Script A: whether Sources/ exists
    fs,           \* Script A: the content of each Swift file
    readable,     \* Script A: whether open/read of the file succeeds (UTF-8, permissions)
    bak,          \* Script A: the file at "<filepath>.bak"
    orig0,        \* Script A: the content of each file when the run started
    pc,           \* Script A: where main is
    cur,          \* Script A: index of the file the current loop is at
    original,     \* Script A: process_file's local
    modified,     \* Script A: process_file's local
    status,       \* Script A: per file "pending", "fixed", "unchanged" or "failed"
    fixed_count,  \* Script A: main's counter
    remaining,    \* Script A: main's list of files that still hold a marker
    out,          \* Script A: what was printed
    exitCode,     \* Script A: the process exit code, -1 while running
    pcB,          \* Script B: where test_backend is
    response,     \* Script B: the local variable response
    healthStatus, \* Script B: the status code GET /health returned, 0 if none
    requested,    \* Script B: the requests issued so far
    exc,          \* Script B: the exception raised, and by which request
    outB,         \* Script B: what was printed
    success,      \* Script B: what test_backend returned ("none" before)
    exitB         \* Script B: the process exit code, -1 while running

fixvars == << text0, text, prev, ret, runs, writes >>

avars == << dirExists, fs, readable, bak, orig0, pc, cur, original, modified,
            status, fixed_count, remaining, out, exitCode >>

bvars == << pcB, response, healthStatus, requested, exc, outB, success, exitB >>

vars == << fixvars, avars, bvars >>

(***************************************************************************)
(* SpecFix: process_file, free of I/O errors, run repeatedly on one file.  *)
(***************************************************************************)
FixInit ==
    /\ text0 \in Inputs
    /\ text = text0
    /\ prev = text0
    /\ ret = "none"
    /\ runs = 0
    /\ writes = 0

FixIdle ==
    /\ text0 = << >>
    /\ text = << >>
    /\ prev = << >>
    /\ ret = "none"
    /\ runs = 0
    /\ writes = 0

FixProcessFile ==
    /\ runs < MaxRuns
    /\ LET content == fix_malformed_code(text)
       IN  IF Changed(text, content)
           THEN /\ text' = content
                /\ writes' = writes + 1
                /\ ret' = "True"
           ELSE /\ UNCHANGED << text, writes >>
                /\ ret' = "False"
    /\ prev' = text
    /\ runs' = runs + 1
    /\ UNCHANGED << text0, avars, bvars >>

(***************************************************************************)
(* Texts named by the docstring of fix_malformed_swift.py.                 *)
(***************************************************************************)
DocCreateIn == <<"c","p","u","b","l","i","c"," ","r","e","a","t","e","P","r","o","j","e","c","t">>

DocCreateOut == <<"p","u","b","l","i","c"," ","f","u","n","c"," ","c","r","e","a","t","e","P","r","o","j","e","c","t">>

DocProjectIn == <<"p","p","u","b","l","i","c"," ","r","o","j","e","c","t">>

DocProjectOut == <<"l","e","t"," ","p","r","o","j","e","c","t">>

DocFilteredIn == <<"f","p","u","b","l","i","c"," ","i","l","t","e","r","e","d","T","o","o","l","s">>

DocFilteredOut == <<"p","u","b","l","i","c"," ","v","a","r"," ","f","i","l","t","e","r","e","d","T","o","o","l","s">>

(***************************************************************************)
(* Script A: main and process_file of fix_malformed_swift.py.              *)
(***************************************************************************)
AInit ==
    /\ dirExists \in BOOLEAN
    /\ fs \in [Files -> FileTexts]
    /\ readable \in [Files -> BOOLEAN]
    /\ bak = [f \in Files |-> NoFile]
    /\ orig0 = fs
    /\ pc = "main"
    /\ cur = 0
    /\ original = << >>
    /\ modified = << >>
    /\ status = [f \in Files |-> "pending"]
    /\ fixed_count = 0
    /\ remaining = << >>
    /\ out = << >>
    /\ exitCode = -1

AIdle ==
    /\ dirExists = FALSE
    /\ fs = << >>
    /\ readable = << >>
    /\ bak = << >>
    /\ orig0 = << >>
    /\ pc = "idle"
    /\ cur = 0
    /\ original = << >>
    /\ modified = << >>
    /\ status = << >>
    /\ fixed_count = 0
    /\ remaining = << >>
    /\ out = << >>
    /\ exitCode = -1

\* a backup written from the fixed text instead of the original
BackupDataModified(orig, fixed) == fixed

\* what process_file writes to the backup path

BackupData(orig, fixed) == orig

\* process_file's except clause: log, return False, main goes to the next file
ProcessFailed ==
    /\ out' = Append(out, "error_processing")
    /\ status' = [status EXCEPT ![cur] = "failed"]
    /\ cur' = cur + 1
    /\ pc' = "repair"

\* main up to the repair loop
MainStart ==
    /\ pc = "main"
    /\ IF dirExists
       THEN /\ out' = Append(out, "scanning")
            /\ fixed_count' = 0
            /\ cur' = 1
            /\ pc' = "repair"
            /\ UNCHANGED exitCode
       ELSE /\ out' = Append(out, "sources_not_found")
            /\ exitCode' = 1
            /\ pc' = "exit"
            /\ UNCHANGED << fixed_count, cur >>
    /\ UNCHANGED << dirExists, fs, readable, bak, orig0, original, modified,
                    status, remaining, fixvars, bvars >>

\* process_file: read the file, fix the text, compare
ProcessRead ==
    /\ pc = "repair"
    /\ cur \in Files
    /\ IF readable[cur]
       THEN LET content == fs[cur]
                fixed == fix_malformed_code(content)
            IN  /\ original' = content
                /\ modified' = fixed
                /\ IF Changed(content, fixed)
                   THEN /\ pc' = "backup"
                        /\ UNCHANGED << status, cur, out >>
                   ELSE /\ status' = [status EXCEPT ![cur] = "unchanged"]
                        /\ cur' = cur + 1
                        /\ pc' = "repair"
                        /\ UNCHANGED out
       ELSE /\ ProcessFailed
            /\ UNCHANGED << original, modified >>
    /\ UNCHANGED << dirExists, fs, readable, bak, orig0, fixed_count, remaining,
                    exitCode, fixvars, bvars >>

\* process_file: write the backup; the with block closes it before going on
ProcessBackup ==
    /\ pc = "backup"
    /\ \/ /\ bak' = [bak EXCEPT ![cur] = FileWith(BackupData(original, modified))]
          /\ pc' = "write"
          /\ UNCHANGED << status, cur, out >>
       \/ /\ \E left \in {NoFile, FileWith(<< >>), FileWith(Prefix(original))} :
                bak' = [bak EXCEPT ![cur] = left]
          /\ ProcessFailed
    /\ UNCHANGED << dirExists, fs, readable, orig0, original, modified,
                    fixed_count, remaining, exitCode, fixvars, bvars >>

\* process_file: write the fixed content and print the line count
ProcessWrite ==
    /\ pc = "write"
    /\ \/ /\ fs' = [fs EXCEPT ![cur] = modified]
          /\ out' = Append(out, "fixed_file")
          /\ pc' = "remove"
          /\ UNCHANGED << status, cur >>
       \/ /\ \E left \in {fs[cur], << >>, Prefix(modified)} :
                fs' = [fs EXCEPT ![cur] = left]
          /\ ProcessFailed
    /\ UNCHANGED << dirExists, readable, bak, orig0, original, modified,
                    fixed_count, remaining, exitCode, fixvars, bvars >>

\* process_file: remove the backup and return True; main counts the file
ProcessRemove ==
    /\ pc = "remove"
    /\ \/ /\ bak' = [bak EXCEPT ![cur] = NoFile]
          /\ status' = [status EXCEPT ![cur] = "fixed"]
          /\ fixed_count' = fixed_count + 1
          /\ cur' = cur + 1
          /\ pc' = "repair"
          /\ UNCHANGED out
       \/ /\ ProcessFailed
          /\ UNCHANGED << bak, fixed_count >>
    /\ UNCHANGED << dirExists, fs, readable, orig0, original, modified,
                    remaining, exitCode, fixvars, bvars >>

\* main: the repair loop is over, print the count and start the re-scan
MainReport ==
    /\ pc = "repair"
    /\ cur > NumFiles
    /\ out' = Append(out, "fixed_count")
    /\ remaining' = << >>
    /\ cur' = 1
    /\ pc' = "verify"
    /\ UNCHANGED << dirExists, fs, readable, bak, orig0, original, modified,
                    status, fixed_count, exitCode, fixvars, bvars >>

\* main: re-scan one file; the open and read are outside any try
MainVerify ==
    /\ pc = "verify"
    /\ cur \in Files
    /\ IF readable[cur]
       THEN /\ remaining' = IF HasMarker(fs[cur]) THEN Append(remaining, cur)
                                                  ELSE remaining
            /\ cur' = cur + 1
            /\ UNCHANGED << pc, exitCode >>
       ELSE /\ pc' = "uncaught"
            /\ exitCode' = 1
            /\ UNCHANGED << remaining, cur >>
    /\ UNCHANGED << dirExists, fs, readable, bak, orig0, original, modified,
                    status, fixed_count, out, fixvars, bvars >>

\* main: the final report; the interpreter exits with 0
MainFinal ==
    /\ pc = "verify"
    /\ cur > NumFiles
    /\ out' = Append(out, IF remaining # << >> THEN "may_still_have_issues"
                                               ELSE "all_fixed")
    /\ exitCode' = 0
    /\ pc' = "exit"
    /\ UNCHANGED << dirExists, fs, readable, bak, orig0, cur, original, modified,
                    status, fixed_count, remaining, fixvars, bvars >>

(***************************************************************************)
(* Script B: test_backend of test_backend.py and its __main__ block.       *)
(***************************************************************************)
BInit ==
    /\ pcB = "start"
    /\ response = NoResponse
    /\ healthStatus = 0
    /\ requested = << >>
    /\ exc = NoException
    /\ outB = << >>
    /\ success = "none"
    /\ exitB = -1

BIdle ==
    /\ pcB = "idle"
    /\ response = NoResponse
    /\ healthStatus = 0
    /\ requested = << >>
    /\ exc = NoException
    /\ outB = << >>
    /\ success = "none"
    /\ exitB = -1

\* a status test that lets every answer through
StatusOkAlways(code) == TRUE

\* the test "response.status_code == 200" of both checks

StatusOk(code) == code = 200

\* the generic except clause placed first takes every exception
IsConnectionErrorNever(kind) == FALSE

\* which except clause takes the exception

IsConnectionError(kind) == kind \in {"ConnectionError", "ConnectTimeout"}

\* requests.get(url, timeout=5): a response, or an exception
Get(url, gotPc) ==
    /\ requested' = Append(requested, url)
    /\ \/ \E code \in Statuses, isJson \in BOOLEAN :
             /\ response' = [status |-> code, json |-> isJson]
             /\ pcB' = gotPc
             /\ UNCHANGED exc
       \/ \E kind \in RequestErrors :
             /\ exc' = [kind |-> kind, at |-> url]
             /\ pcB' = "except"
             /\ UNCHANGED response

GetHealth ==
    /\ pcB = "start"
    /\ outB' = Append(outB, "testing_backend")
    /\ Get("/health", "health")
    /\ healthStatus' = IF pcB' = "health" THEN response'.status ELSE healthStatus
    /\ UNCHANGED << success, exitB, fixvars, avars >>

CheckHealth ==
    /\ pcB = "health"
    /\ IF StatusOk(response.status)
       THEN IF response.json
            THEN /\ outB' = outB \o << "health_check", "backend_healthy", "response" >>
                 /\ pcB' = "api_request"
                 /\ UNCHANGED << exc, success >>
            ELSE /\ outB' = outB \o << "health_check", "backend_healthy" >>
                 /\ exc' = [kind |-> "JSONDecodeError", at |-> "/health"]
                 /\ pcB' = "except"
                 /\ UNCHANGED success
       ELSE /\ outB' = outB \o << "health_check", "backend_returned_status" >>
            /\ success' = "False"
            /\ pcB' = "returned"
            /\ UNCHANGED exc
    /\ UNCHANGED << response, healthStatus, requested, exitB, fixvars, avars >>

GetApi ==
    /\ pcB = "api_request"
    /\ Get("/api/v1/", "api")
    /\ UNCHANGED << healthStatus, outB, success, exitB, fixvars, avars >>

CheckApi ==
    /\ pcB = "api"
    /\ IF StatusOk(response.status)
       THEN IF response.json
            THEN /\ outB' = outB \o << "api_check", "api_accessible", "response" >>
                 /\ success' = "True"
                 /\ pcB' = "returned"
                 /\ UNCHANGED exc
            ELSE /\ outB' = outB \o << "api_check", "api_accessible" >>
                 /\ exc' = [kind |-> "JSONDecodeError", at |-> "/api/v1/"]
                 /\ pcB' = "except"
                 /\ UNCHANGED success
       ELSE /\ outB' = outB \o << "api_check", "api_returned_status" >>
            /\ success' = "True"
            /\ pcB' = "returned"
            /\ UNCHANGED exc
    /\ UNCHANGED << response, healthStatus, requested, exitB, fixvars, avars >>

Except ==
    /\ pcB = "except"
    /\ outB' = IF IsConnectionError(exc.kind)
               THEN outB \o << "cannot_connect", "start_the_backend" >>
               ELSE Append(outB, "error")
    /\ success' = "False"
    /\ pcB' = "returned"
    /\ UNCHANGED << response, healthStatus, requested, exc, exitB, fixvars, avars >>

Exit ==
    /\ pcB = "returned"
    /\ exitB' = IF success = "True" THEN 0 ELSE 1
    /\ pcB' = "exited"
    /\ UNCHANGED << response, healthStatus, requested, exc, outB, success,
                    fixvars, avars >>

(***************************************************************************)
(* Specifications.                                                         *)
(***************************************************************************)
InitFix == FixInit /\ AIdle /\ BIdle

NextFix == FixProcessFile

SpecFix == InitFix /\ [][NextFix]_vars

Init == FixIdle /\ AInit /\ BIdle

Next ==
    \/ MainStart
    \/ ProcessRead
    \/ ProcessBackup
    \/ ProcessWrite
    \/ ProcessRemove
    \/ MainReport
    \/ MainVerify
    \/ MainFinal

Spec == Init /\ [][Next]_vars

InitB == FixIdle /\ AIdle /\ BInit

NextB ==
    \/ GetHealth
    \/ CheckHealth
    \/ GetApi
    \/ CheckApi
    \/ Except
    \/ Exit

SpecB == InitB /\ [][NextB]_vars

(***************************************************************************)
(* Split keywords of a text: a marker letter, "public" and a whitespace.   *)
(***************************************************************************)
SplitAt(t, i) ==
    /\ i + 7 <= Len(t)
    /\ \E k \in 1..Len(MarkerLetters) : t[i] = MarkerLetters[k]
    /\ SubSeq(t, i + 1, i + 6) = <<"p","u","b","l","i","c">>
    /\ IsSpace(t[i + 7])

\* the end of the longest listed pattern that matches at i, 0 if none does
RECURSIVE LongestFrom(_, _, _)
LongestFrom(k, t, i) ==
    IF k > Len(replacements) THEN 0
    ELSE LET e == MatchEnd(replacements[k].pattern, t, i)
             r == LongestFrom(k + 1, t, i)
         IN  IF e > r THEN e ELSE r

\* every split keyword begins a listed corrupted fragment, and no fragment
\* runs into the next split keyword
CleanSplits(t) ==
    \A i \in 1..Len(t) :
        SplitAt(t, i) =>
            /\ LongestFrom(1, t, i) > 0
            /\ \A j \in (i + 1)..Len(t) : SplitAt(t, j) => LongestFrom(1, t, i) <= j

(***************************************************************************)
(* Claims about the text repair (SpecFix).                                 *)
(***************************************************************************)
\* C1: fix_malformed_code is idempotent: a second run of Script A on a file
\* it has already rewritten leaves the text as the first run left it.
C1_Idempotent == runs = 2 => (text = prev /\ ret = "False")

C3_DocstringExamples ==
    runs = 1 =>
        /\ Contains(text0, DocCreateIn) => Contains(text, DocCreateOut)
        /\ Contains(text0, DocProjectIn) => Contains(text, DocProjectOut)
        /\ Contains(text0, DocFilteredIn) => Contains(text, DocFilteredOut)

\* C4: a text in which no pattern of the replacement list occurs is returned
\* unchanged; process_file then writes nothing and returns False.
C4_IdentityWithoutPattern ==
    (runs >= 1 /\ ~PatternOccurs(text0)) =>
        /\ text = text0
        /\ writes = 0
        /\ ret = "False"

C4_Witness == runs = 1 /\ ~PatternOccurs(text0) /\ HasMarker(text0) /\ ret = "False"

(***************************************************************************)
(* Claims about the run of Script A (Spec).                                *)
(***************************************************************************)
Terminated == pc \in {"exit", "uncaught"}

\* C8: no exception raised while a file is handled aborts the run: when the
\* directory exists, the run handles every file and ends with the final report.
C8_FailSoft ==
    (Terminated /\ dirExists) =>
        /\ pc = "exit"
        /\ \A f \in Files : status[f] # "pending"
        /\ out # << >>
        /\ out[Len(out)] \in {"may_still_have_issues", "all_fixed"}

\* C9: the exit code is 1 when the Sources directory is absent and 0 in every
\* other run.
C9_ExitCode == Terminated => exitCode = (IF dirExists THEN 0 ELSE 1)

\* C10: the backup holds the whole original before the target is opened for
\* writing and is removed only after the fixed content is written: until
\* process_file returns True the original content is in the file or in its
\* backup, and once it has returned True no backup is left.
C10_BackupProtectsOriginal ==
    /\ pc \in {"write", "remove"} => bak[cur] = FileWith(orig0[cur])
    /\ pc = "remove" => fs[cur] = modified
    /\ \A f \in Files :
          IF status[f] = "fixed"
          THEN bak[f] = NoFile /\ fs[f] = fix_malformed_code(orig0[f])
          ELSE fs[f] = orig0[f] \/ bak[f] = FileWith(orig0[f])

C10_Witness ==
    \E f \in Files :
        /\ status[f] = "failed"
        /\ fs[f] # orig0[f]
        /\ fs[f] # fix_malformed_code(orig0[f])
        /\ bak[f] = FileWith(orig0[f])

(***************************************************************************)
(* Claims about Script B (SpecB).                                          *)
(***************************************************************************)
Returned == pcB \in {"returned", "exited"}

\* a status code of the 2xx range
Is2xx(code) == code >= 200 /\ code < 300

\* C5: test_backend returns True, and the process exits with 0, only when
\* both GET /health and GET /api/v1/ answered with a 2xx status.
C5_SuccessNeedsBoth2xx ==
    (Returned /\ success = "True") =>
        /\ Is2xx(healthStatus)
        /\ requested = << "/health", "/api/v1/" >>
        /\ Is2xx(response.status)

\* C6: GET /api/v1/ is issued only after GET /health returned a successful
\* status; a non-2xx /health answer ends in failure with no second request;
\* no endpoint is requested twice.
C6_OrderedSingleShot ==
    /\ requested \in { << >>, << "/health" >>, << "/health", "/api/v1/" >> }
    /\ Len(requested) = 2 => healthStatus = 200
    /\ (healthStatus # 0 /\ ~Is2xx(healthStatus)) =>
          /\ requested = << "/health" >>
          /\ pcB \in {"health", "returned", "exited"}
          /\ Returned => success = "False"
          /\ pcB = "exited" => exitB = 1

C6_Witness == pcB = "exited" /\ healthStatus = 404 /\ requested = << "/health" >>

\* C7: a connection error on either request prints the connection-specific
\* message, is followed by no further request and ends in False and exit code
\* 1; any other exception is reported generically and ends in failure too.
C7_ExceptionsEndInFailure ==
    exc.kind # "none" =>
        /\ pcB \in {"except", "returned", "exited"}
        /\ exc.at \in {"/health", "/api/v1/"}
        /\ requested[Len(requested)] = exc.at
        /\ Returned =>
              /\ success = "False"
              /\ LET last == outB[Len(outB)]
                 IN  IF exc.kind \in {"ConnectionError", "ConnectTimeout"}
                     THEN last = "start_the_backend" /\ outB[Len(outB) - 1] = "cannot_connect"
                     ELSE last = "error"
        /\ pcB = "exited" => exitB = 1

C7_Witness ==
    /\ pcB = "exited"
    /\ exc = [kind |-> "ConnectionError", at |-> "/api/v1/"]
    /\ exitB = 1

=============================================================================
